---- MODULE Spec2Model ----
(***************************************************************************)
(* RemoteOK job scraper (src/main.py): the page-increment controller of    *)
(* main(), the retry loop of fetch_html, parse_jobs, filter_jobs and       *)
(* next_page_url, as a state machine.                                      *)
(*                                                                         *)
(* Text is modelled by TLA+ strings (Len, \o and SubSeq act on them).      *)
(* Python's None is the value None below; an absent attribute of a markup  *)
(* element is None, a present but empty one is "".                         *)
(***************************************************************************)
EXTENDS Integers, Sequences, FiniteSets, TLC

None == "<None>"

\* Python truthiness of an optional string: neither None nor "".
Truthy(s) == s # None /\ s # ""

(***************************************************************************)
(* String helpers: str.startswith, the `in` operator on str, str.strip and *)
(* str.lower.                                                              *)
(***************************************************************************)
StartsWith(s, p) == Len(s) >= Len(p) /\ SubSeq(s, 1, Len(p)) = p

Contains(s, sub) ==
  \E i \in 1..(Len(s) - Len(sub) + 1) : SubSeq(s, i, i + Len(sub) - 1) = sub

CharAt(s, i) == SubSeq(s, i, i)

IsSpace(c) == c = " "

RECURSIVE LStrip(_)
LStrip(s) ==
  IF Len(s) > 0 /\ IsSpace(CharAt(s, 1)) THEN LStrip(SubSeq(s, 2, Len(s))) ELSE s

RECURSIVE RStrip(_)
RStrip(s) ==
  IF Len(s) > 0 /\ IsSpace(CharAt(s, Len(s)))
  THEN RStrip(SubSeq(s, 1, Len(s) - 1)) ELSE s

Strip(s) == RStrip(LStrip(s))

Upper == <<"A","B","C","D","E","F","G","H","I","J","K","L","M",
           "N","O","P","Q","R","S","T","U","V","W","X","Y","Z">>
LowerOf == <<"a","b","c","d","e","f","g","h","i","j","k","l","m",
             "n","o","p","q","r","s","t","u","v","w","x","y","z">>

LowerChar(c) ==
  IF \E k \in 1..26 : Upper[k] = c
  THEN LowerOf[CHOOSE k \in 1..26 : Upper[k] = c] ELSE c

RECURSIVE Lower(_)
Lower(s) ==
  IF Len(s) = 0 THEN "" ELSE LowerChar(CharAt(s, 1)) \o Lower(SubSeq(s, 2, Len(s)))

\* " ".join(parts)
RECURSIVE Join(_)
Join(parts) ==
  IF Len(parts) = 0 THEN ""
  ELSE IF Len(parts) = 1 THEN parts[1]
  ELSE parts[1] \o " " \o Join(Tail(parts))

(***************************************************************************)
(* Configuration constants of the program.                                 *)
(***************************************************************************)
REMOTEOK_URL == "https://remoteok.com/remote-jobs"
SITE_ROOT == "https://remoteok.com"

UTCNOW_ISO == "2025-06-20T12:00:00"

(***************************************************************************)
(* Markup.  A fetched document is the sequence of its tr elements (trs)    *)
(* and whether its text is shorter than the minimum length fetch_html      *)
(* checks.  A tr is its class list, the attributes parse_jobs reads and    *)
(* the sequence of its descendant elements in document order.  An element  *)
(* is its tag, its class set, its itemprop, the class of its enclosing     *)
(* container (box; boxtd: that container is a td), its text and the        *)
(* attributes parse_jobs reads.                                            *)
(***************************************************************************)
E0 == [tag |-> "span", cls |-> {}, itemprop |-> None, box |-> "", boxtd |-> FALSE,
       text |-> "", href |-> None, src |-> None, data_src |-> None,
       datetime |-> None]

R0 == [classes |-> <<"job">>, data_id |-> None, data_slug |-> None, id |-> None,
       onclick |-> None, elems |-> <<>>]

\* bs4 select(): the elements matching a selector, in document order.
Select(es, P(_)) == SelectSeq(es, P)

\* bs4 select_one(): the first match, as a sequence of length 0 or 1.
SelectOne(es, P(_)) ==
  LET m == SelectSeq(es, P) IN IF m = <<>> THEN <<>> ELSE <<m[1]>>

\* Python's `a or b` on optional elements and on lists.
Or(a, b) == IF a # <<>> THEN a ELSE b

\* Tag.get_text(strip=True)
GetText(e) == Strip(e.text)

\* str(tag) of the description element
Markup(e) == "<" \o e.tag \o ">" \o e.text \o "</" \o e.tag \o ">"

\* Tag.get(attr, "") : absent attribute read with a "" default
GetOr(v) == IF v = None THEN "" ELSE v

\* a or b on optional strings
OrStr(a, b) == IF Truthy(a) THEN a ELSE b

InSeq(v, s) == \E i \in 1..Len(s) : s[i] = v

(***************************************************************************)
(* parse_jobs, approach 3 (line 188): re.search for a quote character, a    *)
(* run of non-quote characters holding remote-jobs, and a quote character. *)
(* The text between the two quotes holds no quote, so a match runs from a  *)
(* quote to the next quote; the leftmost one wins.  The result is          *)
(* group(1), the text between the quotes, or None.                         *)
(***************************************************************************)
IsQuote(c) == c = "'" \/ c = "\""

OnclickUrl(s) ==
  LET Q == {i \in 1..Len(s) : IsQuote(CharAt(s, i))}
      M == {i \in Q : \E j \in Q :
              /\ i < j
              /\ \A k \in Q : ~(i < k /\ k < j)
              /\ Contains(SubSeq(s, i + 1, j - 1), "remote-jobs")}
  IN IF M = {} THEN None
     ELSE LET i == CHOOSE a \in M : \A b \in M : a <= b
              j == CHOOSE a \in Q : a > i /\ \A b \in Q : b > i => a <= b
          IN SubSeq(s, i + 1, j - 1)

\* lines 171-176: the first link whose href names a job
LinkUrl(row) ==
  LET links == Select(row.elems, LAMBDA e : e.tag = "a")
      good == SelectSeq(links, LAMBDA e :
                 LET href == GetOr(e.href)
                 IN href # "" /\ (Contains(href, "/remote-jobs/") \/ Contains(href, "/l/")))
  IN IF good = <<>> THEN None
     ELSE LET href == good[1].href
          IN IF StartsWith(href, "http") THEN href ELSE SITE_ROOT \o href

\* line 160
JobId(row) == OrStr(row.data_id, OrStr(row.data_slug, row.id))

\* lines 168-192: the three approaches in order
ResolveUrl(row) ==
  LET u1 == LinkUrl(row)
      u2 == IF ~Truthy(u1) /\ Truthy(JobId(row))
            THEN SITE_ROOT \o "/remote-jobs/" \o JobId(row) ELSE u1
      onclick == GetOr(row.onclick)
      m == OnclickUrl(onclick)
      u3 == IF ~Truthy(u2)
               /\ (Contains(onclick, "location.href") \/ Contains(onclick, "window.open"))
               /\ m # None
            THEN (IF StartsWith(m, "http") THEN m ELSE SITE_ROOT \o m)
            ELSE u2
  IN u3

\* lines 201-205
TitleElem(row) ==
  LET es == row.elems IN
  Or(SelectOne(es, LAMBDA e : e.tag = "h2" /\ e.itemprop = "title"),
  Or(SelectOne(es, LAMBDA e : e.tag = "h2" /\ e.boxtd /\ e.box = "company_and_position"),
  Or(SelectOne(es, LAMBDA e : e.tag = "h2" /\ e.box = "company_and_position"),
  Or(SelectOne(es, LAMBDA e : e.tag = "h2"),
     SelectOne(es, LAMBDA e : e.itemprop = "title")))))

\* lines 215-220
CompanyElem(row) ==
  LET es == row.elems IN
  Or(SelectOne(es, LAMBDA e : e.tag = "h3" /\ e.itemprop = "name"),
  Or(SelectOne(es, LAMBDA e : e.tag = "h3" /\ e.boxtd /\ e.box = "company"),
  Or(SelectOne(es, LAMBDA e : e.tag = "h3" /\ e.boxtd /\ e.box = "company_and_position"),
  Or(SelectOne(es, LAMBDA e : e.tag = "h3" /\ e.box = "company"),
  Or(SelectOne(es, LAMBDA e : e.tag = "h3"),
     SelectOne(es, LAMBDA e : e.itemprop = "name"))))))

\* lines 225-229
RowLocation(row) ==
  LET el == Or(SelectOne(row.elems, LAMBDA e : e.tag = "td" /\ "location" \in e.cls),
               SelectOne(row.elems, LAMBDA e : "location" \in e.cls))
  IN IF el = <<>> THEN "Worldwide"
     ELSE IF GetText(el[1]) # "" THEN GetText(el[1]) ELSE "Worldwide"

\* lines 232-234
RowTags(row) ==
  LET es == row.elems
      tag_elems ==
        Or(Select(es, LAMBDA e : "tag" \in e.cls /\ e.boxtd /\ e.box = "tags"),
        Or(Select(es, LAMBDA e : "tag" \in e.cls /\ e.box = "tags"),
           Select(es, LAMBDA e : "tag" \in e.cls)))
      kept == SelectSeq(tag_elems, LAMBDA e : GetText(e) # "")
  IN [i \in 1..Len(kept) |-> GetText(kept[i])]

\* lines 237-240
RowLogo(row) ==
  LET el == Or(SelectOne(row.elems, LAMBDA e : e.tag = "img" /\ e.boxtd /\ e.box = "logo"),
               SelectOne(row.elems, LAMBDA e : e.tag = "img" /\ "logo" \in e.cls))
  IN IF el = <<>> THEN None
     ELSE IF Truthy(el[1].data_src) THEN el[1].data_src ELSE el[1].src

\* lines 243-246
RowDate(row) ==
  LET el == Or(SelectOne(row.elems, LAMBDA e : e.tag = "time"),
               SelectOne(row.elems, LAMBDA e : e.tag = "time" /\ e.boxtd /\ e.box = "time"))
  IN IF el = <<>> THEN None
     ELSE IF Truthy(el[1].datetime) THEN el[1].datetime ELSE GetText(el[1])

\* lines 249-251
DescriptionElem(row) ==
  Or(SelectOne(row.elems, LAMBDA e : "description" \in e.cls),
     SelectOne(row.elems, LAMBDA e : "expandContents" \in e.cls))

\* lines 268-280 without the `break`s: the last tag that names a job type
\* decides
RECURSIVE JobType_NoBreak(_)
JobType_NoBreak(tags) ==
  IF Len(tags) = 0 THEN "Remote"
  ELSE LET later == JobType_NoBreak(Tail(tags))
           tag_low == Lower(tags[1])
       IN IF later # "Remote" THEN later
          ELSE IF Contains(tag_low, "full") THEN "Full-time"
          ELSE IF Contains(tag_low, "part") THEN "Part-time"
          ELSE IF Contains(tag_low, "contract") THEN "Contract"
          ELSE "Remote"

\* lines 268-280: the first tag that names a job type decides
RECURSIVE JobType(_)
JobType(tags) ==
  IF Len(tags) = 0 THEN "Remote"
  ELSE LET tag_low == Lower(tags[1]) IN
       IF Contains(tag_low, "full") \/ Contains(tag_low, "fulltime") THEN "Full-time"
       ELSE IF Contains(tag_low, "part") \/ Contains(tag_low, "parttime") THEN "Part-time"
       ELSE IF Contains(tag_low, "contract") THEN "Contract"
       ELSE JobType(Tail(tags))

\* lines 155, 194, 207: the three places where a row is skipped
\* (SkipsNoUrl_Never: line 194 with the test dropped)
\* (IsAdOrHeader_AdOnly: line 155 without its second test)
IsAdOrHeader_AdOnly(row) == InSeq("ad", row.classes)
IsAdOrHeader(row) == InSeq("ad", row.classes) \/ InSeq("header", row.classes)
SkipsNoUrl_Never(row) == FALSE

SkipsNoUrl(row) == ~Truthy(ResolveUrl(row))
SkipsNoTitle(row) == TitleElem(row) = <<>>

\* lines 222: the company text, "Unknown" when no company element is found
RowCompany(row) ==
  IF CompanyElem(row) # <<>> THEN GetText(CompanyElem(row)[1]) ELSE "Unknown"

\* lines 151-282, one iteration: <<>> when the row is skipped, else <<job>>
ParseRow(row) ==
  IF IsAdOrHeader(row) THEN <<>>
  ELSE IF SkipsNoUrl(row) THEN <<>>
  ELSE IF SkipsNoTitle(row) THEN <<>>
  ELSE LET d == DescriptionElem(row) IN
    << [job_title |-> GetText(TitleElem(row)[1]),
        company |-> RowCompany(row),
        job_url |-> ResolveUrl(row),
        location |-> RowLocation(row),
        tags |-> RowTags(row),
        logo |-> RowLogo(row),
        date_posted |-> RowDate(row),
        description_html |-> IF d # <<>> THEN Markup(d[1]) ELSE "",
        description_text |-> IF d # <<>> THEN GetText(d[1]) ELSE "",
        source_url |-> REMOTEOK_URL,
        collected_at |-> UTCNOW_ISO,
        job_type |-> JobType(RowTags(row))] >>

\* lines 135-147: soup.select("tr.job"), else tr[data-id], else tr[class*='job']
JobRows(trs) ==
  Or(SelectSeq(trs, LAMBDA r : InSeq("job", r.classes)),
  Or(SelectSeq(trs, LAMBDA r : r.data_id # None),
     SelectSeq(trs, LAMBDA r : Contains(Join(r.classes), "job"))))

RECURSIVE ParseRows(_)
ParseRows(rows) ==
  IF Len(rows) = 0 THEN <<>> ELSE ParseRow(rows[1]) \o ParseRows(Tail(rows))

\* parse_jobs(html)
parse_jobs(page_html) == ParseRows(JobRows(page_html.trs))

(***************************************************************************)
(* Numbers in text: int(str) on a run of decimal digits, and str(int).     *)
(***************************************************************************)
Digits == <<"0","1","2","3","4","5","6","7","8","9">>

IsDigit(c) == \E k \in 1..10 : Digits[k] = c

IsDigits(s) == Len(s) > 0 /\ \A i \in 1..Len(s) : IsDigit(CharAt(s, i))

DigitVal(c) == (CHOOSE k \in 1..10 : Digits[k] = c) - 1

RECURSIVE ToInt(_)
ToInt(s) ==
  IF Len(s) = 0 THEN 0
  ELSE 10 * ToInt(SubSeq(s, 1, Len(s) - 1)) + DigitVal(CharAt(s, Len(s)))

RECURSIVE IntToStr(_)
IntToStr(n) ==
  IF n < 10 THEN Digits[n + 1] ELSE IntToStr(n \div 10) \o Digits[(n % 10) + 1]

\* the position of the first occurrence of character c in s, 0 when absent
IndexOf(s, c) ==
  IF \E i \in 1..Len(s) : CharAt(s, i) = c
  THEN CHOOSE i \in 1..Len(s) :
         CharAt(s, i) = c /\ \A k \in 1..(i - 1) : CharAt(s, k) # c
  ELSE 0

\* str.split(c)
RECURSIVE Split(_, _)
Split(s, c) ==
  LET i == IndexOf(s, c) IN
  IF i = 0 THEN <<s>>
  ELSE <<SubSeq(s, 1, i - 1)>> \o Split(SubSeq(s, i + 1, Len(s)), c)

(***************************************************************************)
(* next_page_url (lines 346-351) and the urllib.parse functions it calls.  *)
(***************************************************************************)
\* urlparse: scheme://netloc/path?query#fragment
urlparse(url) ==
  LET h == IndexOf(url, "#")
      nofrag == IF h = 0 THEN url ELSE SubSeq(url, 1, h - 1)
      fragment == IF h = 0 THEN "" ELSE SubSeq(url, h + 1, Len(url))
      q == IndexOf(nofrag, "?")
      noquery == IF q = 0 THEN nofrag ELSE SubSeq(nofrag, 1, q - 1)
      query == IF q = 0 THEN "" ELSE SubSeq(nofrag, q + 1, Len(nofrag))
      c == IndexOf(noquery, ":")
      hasScheme == c > 0 /\ Len(noquery) >= c + 2 /\ SubSeq(noquery, c + 1, c + 2) = "//"
      scheme == IF hasScheme THEN SubSeq(noquery, 1, c - 1) ELSE ""
      rest == IF hasScheme THEN SubSeq(noquery, c + 3, Len(noquery)) ELSE noquery
      sl == IndexOf(rest, "/")
      netloc == IF ~hasScheme THEN ""
                ELSE IF sl = 0 THEN rest ELSE SubSeq(rest, 1, sl - 1)
      path == IF ~hasScheme THEN rest
              ELSE IF sl = 0 THEN "" ELSE SubSeq(rest, sl, Len(rest))
  IN [scheme |-> scheme, netloc |-> netloc, path |-> path,
      query |-> query, fragment |-> fragment]

\* urlunparse
urlunparse(parts) ==
  (IF parts.scheme # "" THEN parts.scheme \o "://" ELSE "")
  \o parts.netloc \o parts.path
  \o (IF parts.query # "" THEN "?" \o parts.query ELSE "")
  \o (IF parts.fragment # "" THEN "#" \o parts.fragment ELSE "")

\* unquote(s.replace("+", " ")) for the escapes %20 and %2F
RECURSIVE UnquotePlus(_)
UnquotePlus(s) ==
  IF Len(s) = 0 THEN ""
  ELSE IF CharAt(s, 1) = "+" THEN " " \o UnquotePlus(SubSeq(s, 2, Len(s)))
  ELSE IF Len(s) >= 3 /\ SubSeq(s, 1, 3) = "%20"
       THEN " " \o UnquotePlus(SubSeq(s, 4, Len(s)))
  ELSE IF Len(s) >= 3 /\ SubSeq(s, 1, 3) = "%2F"
       THEN "/" \o UnquotePlus(SubSeq(s, 4, Len(s)))
  ELSE CharAt(s, 1) \o UnquotePlus(SubSeq(s, 2, Len(s)))

\* quote_plus: space becomes +, / becomes %2F, letters and digits stay
RECURSIVE QuotePlus(_)
QuotePlus(s) ==
  IF Len(s) = 0 THEN ""
  ELSE (IF CharAt(s, 1) = " " THEN "+"
        ELSE IF CharAt(s, 1) = "/" THEN "%2F"
        ELSE CharAt(s, 1)) \o QuotePlus(SubSeq(s, 2, Len(s)))

\* parse_qsl with keep_blank_values=False: the (name, value) pairs of a query
\* string; a piece with no "=" or with an empty value is dropped
RECURSIVE QslOf(_)
QslOf(pieces) ==
  IF Len(pieces) = 0 THEN <<>>
  ELSE LET nv == pieces[1]
           e == IndexOf(nv, "=")
           name == SubSeq(nv, 1, e - 1)
           value == SubSeq(nv, e + 1, Len(nv))
       IN (IF nv = "" \/ e = 0 \/ Len(value) = 0 THEN <<>>
           ELSE << <<UnquotePlus(name), UnquotePlus(value)>> >>)
          \o QslOf(Tail(pieces))

\* dict insertion of one (name, value): appended to the name's list
DictAdd(d, name, value) ==
  IF \E i \in 1..Len(d) : d[i][1] = name
  THEN [i \in 1..Len(d) |->
          IF d[i][1] = name THEN <<name, Append(d[i][2], value)>> ELSE d[i]]
  ELSE Append(d, <<name, <<value>>>>)

RECURSIVE DictOf(_, _)
DictOf(d, pairs) ==
  IF Len(pairs) = 0 THEN d
  ELSE DictOf(DictAdd(d, pairs[1][1], pairs[1][2]), Tail(pairs))

\* parse_qs: a dict (in insertion order) from each name to the list of its values
parse_qs(query) == DictOf(<<>>, QslOf(Split(query, "&")))

\* d[name] = values
DictSet(d, name, values) ==
  IF \E i \in 1..Len(d) : d[i][1] = name
  THEN [i \in 1..Len(d) |-> IF d[i][1] = name THEN <<name, values>> ELSE d[i]]
  ELSE Append(d, <<name, values>>)

\* d.get(name, default)
DictGet(d, name, default) ==
  IF \E i \in 1..Len(d) : d[i][1] = name
  THEN d[CHOOSE i \in 1..Len(d) : d[i][1] = name][2]
  ELSE default

RECURSIVE EncodeValues(_, _)
EncodeValues(name, values) ==
  IF Len(values) = 0 THEN <<>>
  ELSE <<QuotePlus(name) \o "=" \o QuotePlus(values[1])>>
       \o EncodeValues(name, Tail(values))

RECURSIVE EncodePairs(_)
EncodePairs(d) ==
  IF Len(d) = 0 THEN <<>>
  ELSE EncodeValues(d[1][1], d[1][2]) \o EncodePairs(Tail(d))

RECURSIVE JoinAmp(_)
JoinAmp(parts) ==
  IF Len(parts) = 0 THEN ""
  ELSE IF Len(parts) = 1 THEN parts[1]
  ELSE parts[1] \o "&" \o JoinAmp(Tail(parts))

\* urlencode(qs, doseq=True)
urlencode(d) == JoinAmp(EncodePairs(d))

\* line 349: int(qs.get("pg", [1])[0]) + 1
NextPageNumber(qs) ==
  LET v == DictGet(qs, "pg", <<"1">>)[1] IN ToInt(v) + 1

next_page_url(current_url) ==
  LET parts == urlparse(current_url)
      qs == parse_qs(parts.query)
      next_page == NextPageNumber(qs)
      qs2 == DictSet(qs, "pg", <<IntToStr(next_page)>>)
  IN urlunparse([parts EXCEPT !.query = urlencode(qs2)])

(***************************************************************************)
(* filter_jobs (lines 316-343).                                            *)
(***************************************************************************)
\* DATE_WINDOWS.get(date_filter) (line 49, 318); 0 stands for None: line 335
\* tests the truth of days, and 0 and None are both false
DATE_WINDOWS(window) ==
  CASE window = "today" -> 1
    [] window = "week" -> 7
    [] window = "month" -> 31
    [] OTHER -> 0

\* date.toordinal() of a proleptic Gregorian date
LeapYear(y) == (y % 4 = 0 /\ y % 100 # 0) \/ y % 400 = 0

DaysInMonth(y, m) ==
  IF m = 2 THEN (IF LeapYear(y) THEN 29 ELSE 28)
  ELSE IF m \in {4, 6, 9, 11} THEN 30 ELSE 31

RECURSIVE DaysBeforeMonth(_, _)
DaysBeforeMonth(y, m) ==
  IF m = 1 THEN 0 ELSE DaysBeforeMonth(y, m - 1) + DaysInMonth(y, m - 1)

ToOrdinal(y, m, d) ==
  LET p == y - 1
  IN p * 365 + (p \div 4) - (p \div 100) + (p \div 400) + DaysBeforeMonth(y, m) + d

(***************************************************************************)
(* datetime.fromisoformat on the forms YYYY-MM-DD, YYYY-MM-DDTHH:MM:SS and *)
(* YYYY-MM-DDTHH:MM:SS+HH:MM.  ok: the text parses (no ValueError); aware: *)
(* it carries a UTC offset; day: the date's ordinal; tod: the seconds      *)
(* since midnight, in the text's own clock.                                *)
(***************************************************************************)
fromisoformat(s) ==
  LET bad == [ok |-> FALSE, aware |-> FALSE, day |-> 0, tod |-> 0]
      dateOk == /\ Len(s) >= 10
                /\ IsDigits(SubSeq(s, 1, 4)) /\ CharAt(s, 5) = "-"
                /\ IsDigits(SubSeq(s, 6, 7)) /\ CharAt(s, 8) = "-"
                /\ IsDigits(SubSeq(s, 9, 10))
      y == ToInt(SubSeq(s, 1, 4))
      m == ToInt(SubSeq(s, 6, 7))
      d == ToInt(SubSeq(s, 9, 10))
      timeOk == /\ Len(s) >= 19
                /\ IsDigits(SubSeq(s, 12, 13)) /\ CharAt(s, 14) = ":"
                /\ IsDigits(SubSeq(s, 15, 16)) /\ CharAt(s, 17) = ":"
                /\ IsDigits(SubSeq(s, 18, 19))
                /\ ToInt(SubSeq(s, 12, 13)) < 24
                /\ ToInt(SubSeq(s, 15, 16)) < 60
                /\ ToInt(SubSeq(s, 18, 19)) < 60
      tod == ToInt(SubSeq(s, 12, 13)) * 3600 + ToInt(SubSeq(s, 15, 16)) * 60
             + ToInt(SubSeq(s, 18, 19))
      offOk == /\ Len(s) = 25
               /\ CharAt(s, 20) \in {"+", "-"}
               /\ IsDigits(SubSeq(s, 21, 22)) /\ CharAt(s, 23) = ":"
               /\ IsDigits(SubSeq(s, 24, 25))
  IN IF ~dateOk THEN bad
     ELSE IF ~(y >= 1 /\ m \in 1..12 /\ d >= 1 /\ d <= DaysInMonth(y, m)) THEN bad
     ELSE IF Len(s) = 10
          THEN [ok |-> TRUE, aware |-> FALSE, day |-> ToOrdinal(y, m, d), tod |-> 0]
     ELSE IF ~timeOk THEN bad
     ELSE IF Len(s) = 19
          THEN [ok |-> TRUE, aware |-> FALSE, day |-> ToOrdinal(y, m, d), tod |-> tod]
     ELSE IF offOk
          THEN [ok |-> TRUE, aware |-> TRUE, day |-> ToOrdinal(y, m, d), tod |-> tod]
     ELSE bad

\* floor division, as timedelta.days rounds toward minus infinity
FloorDiv(a, b) == IF a >= 0 THEN a \div b ELSE -((-a + b - 1) \div b)

\* (now - dt).days
AgeDays(now, dt) == FloorDiv((now.day - dt.day) * 86400 + (now.tod - dt.tod), 86400)

\* lines 335-341: TRUE when the job is dropped for its age.  The subtraction
\* of an offset-aware datetime from utcnow() raises TypeError, which line 340
\* swallows like the ValueError of an unparseable text.
RejectedByDate(j, days, now) ==
  /\ days # 0
  /\ Truthy(j.date_posted)
  /\ LET dt == fromisoformat(j.date_posted) IN
     /\ dt.ok
     /\ ~dt.aware
     /\ AgeDays(now, dt) > days

\* lines 321-329
JobText(j) ==
  Lower(Join(<<j.job_title, j.company, j.location, Join(j.tags), j.description_text>>))

\* line 331 comparing the keyword as typed
Accepts_KeywordAsTyped(j, kw, loc, days, now) ==
  /\ ~(Truthy(kw) /\ ~Contains(JobText(j), kw))
  /\ ~(Truthy(loc) /\ ~Contains(Lower(j.location), Lower(loc)))
  /\ ~RejectedByDate(j, days, now)

\* lines 331-342: TRUE when the job is kept
Accepts(j, kw, loc, days, now) ==
  /\ ~(Truthy(kw) /\ ~Contains(JobText(j), Lower(kw)))
  /\ ~(Truthy(loc) /\ ~Contains(Lower(j.location), Lower(loc)))
  /\ ~RejectedByDate(j, days, now)

filter_jobs(js, kw, loc, window) ==
  LET now == fromisoformat(UTCNOW_ISO)
      days == DATE_WINDOWS(window)
  IN SelectSeq(js, LAMBDA j : Accepts(j, kw, loc, days, now))

(***************************************************************************)
(* The inputs of a run: the markup the site may serve.                     *)
(***************************************************************************)
H2(text) == [E0 EXCEPT !.tag = "h2", !.itemprop = "title", !.text = text]
H3(text) == [E0 EXCEPT !.tag = "h3", !.itemprop = "name", !.text = text]
Link(href) == [E0 EXCEPT !.tag = "a", !.href = href]
TagEl(text) == [E0 EXCEPT !.tag = "div", !.cls = {"tag"}, !.box = "tags",
                          !.boxtd = TRUE, !.text = text]
LocEl(text) == [E0 EXCEPT !.tag = "div", !.cls = {"location"}, !.text = text]
TimeEl(dt) == [E0 EXCEPT !.tag = "time", !.datetime = dt]
DescEl(text) == [E0 EXCEPT !.tag = "div", !.cls = {"description"}, !.text = text]
LogoEl(src) == [E0 EXCEPT !.tag = "img", !.cls = {"logo"}, !.src = src]

\* a well-formed row: relative link, itemprop title and company
RowA == [R0 EXCEPT !.data_id = "a", !.elems =
  <<Link("/remote-jobs/a"), H2(" Python Dev "), H3("Acme"), LocEl("USA"),
    TagEl("Full Time"), TimeEl("2025-06-17T13:00:00"), DescEl("Build APIs"),
    LogoEl("/logo/a.png")>>]

\* the url of RowA again, resolved from data-id, with another title
RowA2 == [R0 EXCEPT !.data_id = "a", !.elems =
  <<Link("/about"), H2("Senior Dev"), H3("Beta")>>]

\* absolute link, posted 10 days before the run
RowB == [R0 EXCEPT !.elems =
  <<Link("https://remoteok.com/remote-jobs/b"), H2("Designer"), H3("Corp"),
    TagEl(""), TagEl("Contract"), TimeEl("2025-06-10T09:00:00")>>]

\* url from onclick, a bare h2, no company element, a date with an offset
RowC == [R0 EXCEPT !.onclick = "location.href='/remote-jobs/c'", !.elems =
  <<[E0 EXCEPT !.tag = "h2", !.text = "Python QA"],
    TimeEl("2025-06-01T09:00:00+00:00")>>]

RowD == [R0 EXCEPT !.data_slug = "d", !.elems =
  <<H2("Writer"), H3("Delta"), LocEl("  "),
    [E0 EXCEPT !.tag = "time", !.text = " 2d ago "]>>]

RowE == [R0 EXCEPT !.id = "e", !.elems =
  <<Link("/l/e"), H2("Support"), H3("Echo"), TagEl("part-time"), LocEl("Europe")>>]

\* an advertisement and a header row, otherwise well-formed
RowAd == [R0 EXCEPT !.classes = <<"job", "ad">>, !.data_id = "z", !.elems =
  <<Link("/remote-jobs/z"), H2("Buy now"), H3("Sponsor")>>]
RowHeader == [R0 EXCEPT !.classes = <<"job", "header">>, !.data_id = "y", !.elems =
  <<H2("Today"), H3("Heading")>>]

\* title element present, its text only white space
RowBlankTitle == [R0 EXCEPT !.data_id = "f", !.elems = <<H2("   "), H3("Foxtrot")>>]
\* company element present, its text empty
RowBlankCompany == [R0 EXCEPT !.data_id = "g", !.elems = <<H2("Analyst"), H3("")>>]
\* no title element
RowNoTitle == [R0 EXCEPT !.data_id = "h", !.elems = <<H3("Hotel")>>]
\* no url: the link names no job, no identifier, the onclick does not navigate
RowNoUrl == [R0 EXCEPT !.onclick = "track('/remote-jobs/i')", !.elems =
  <<Link("/about"), H2("Ghost"), H3("India")>>]
\* a tr without class job, found by the alternative selector tr[data-id]
RowAlt == [R0 EXCEPT !.classes = <<>>, !.data_id = "k", !.elems =
  <<H2("Kernel Dev"), H3("Kilo")>>]

Doc(trs) == [short |-> FALSE, trs |-> trs]
ShortDoc(trs) == [short |-> TRUE, trs |-> trs]

Documents ==
  { Doc(<<>>),
    Doc(<<RowAd, RowHeader>>),
    Doc(<<RowA, RowAd, RowB>>),
    Doc(<<RowA, RowB, RowC, RowD, RowE>>),
    Doc(<<RowA2, RowA, RowD>>),
    Doc(<<RowBlankTitle, RowBlankCompany>>),
    Doc(<<RowNoTitle, RowNoUrl, RowC>>),
    Doc(<<RowAlt>>),
    ShortDoc(<<>>),
    ShortDoc(<<RowE>>) }

\* the actor inputs keyword, location and dateFilter (lines 368-370)
FilterInputs ==
  { [keyword |-> None, location |-> None, dateFilter |-> "all"],
    [keyword |-> "PYTHON", location |-> None, dateFilter |-> "month"],
    [keyword |-> None, location |-> "us", dateFilter |-> "week"] }

(***************************************************************************)
(* parse_jobs and filter_jobs are pure: their results on the inputs above, *)
(* computed once.  The actions of main() look the results up.              *)
(***************************************************************************)
ParsedJobs == [d \in Documents |-> parse_jobs(d)]

FilteredJobs ==
  [d \in Documents |->
     [f \in FilterInputs |->
        filter_jobs(ParsedJobs[d], f.keyword, f.location, f.dateFilter)]]

\* bounds on the actor inputs maxJobs and maxPages
MaxJobs == 2
MaxPages == 4

\* the default of fetch_html's parameter retries (line 56)
RETRIES == 3
\* lines 409 and 418: the streak that stops pagination
STREAK == 3

(***************************************************************************)
(* The state of main() (lines 365-451) and of the fetch_html call in       *)
(* progress.                                                               *)
(***************************************************************************)
VARIABLES
  keyword, location, date_filter, max_jobs, max_pages,  \* lines 368-372
  page,               \* the loop variable of line 391
  page_url,           \* line 386
  seen,               \* line 387
  total_saved,        \* line 388
  consecutive_empty,  \* line 389
  pc,                 \* where main() stands
  attempt,            \* fetch_html's loop variable (line 58)
  error,              \* the exception fetch_html raised: its raise site
  html,               \* line 399
  jobs,               \* line 414
  filtered,           \* line 426
  idx,                \* position of the loop of line 430 in filtered
  new_jobs_count,     \* line 429
  dataset,            \* the records pushed by Actor.push_data, in order
  reported,           \* the total the final log line reports, -1 before
  last,               \* history: the last fetch_html call: the page number of its
                      \* url, its outcome, and how many calls in a row ended so
  first_seen          \* history: per url, the first job that passed the filters

vars == <<keyword, location, date_filter, max_jobs, max_pages, page, page_url,
          seen, total_saved, consecutive_empty, pc, attempt, error, html, jobs,
          filtered, idx, new_jobs_count, dataset, reported, last, first_seen>>

inputs == <<keyword, location, date_filter, max_jobs, max_pages>>
locals == <<html, jobs, filtered, idx, new_jobs_count>>

NoDoc == Doc(<<>>)

\* the page number a listing url names: its pg parameter, 1 without one
PageNo(url) == NextPageNumber(parse_qs(urlparse(url).query)) - 1

\* the listing urls main() holds in page_url: SOURCE_URL (line 386), then
\* next_page_url of the url before (line 449), once per page at most
RECURSIVE UrlsWithin(_)
UrlsWithin(n) ==
  IF n = 0 THEN {REMOTEOK_URL}
  ELSE LET before == UrlsWithin(n - 1)
       IN before \cup {next_page_url(u) : u \in before}

PageUrls == UrlsWithin(MaxPages)

\* next_page_url on these urls, computed once
NextPageUrl == [u \in PageUrls |-> next_page_url(u)]

\* history: the record of a fetch_html call of url that ended with outcome o
Outcome(l, url, o) ==
  [url |-> url, outcome |-> o,
   run |-> IF l.outcome = o THEN l.run + 1 ELSE 1,
   calls |-> l.calls + 1]

Init ==
  /\ \E f \in FilterInputs :
       /\ keyword = f.keyword
       /\ location = f.location
       /\ date_filter = f.dateFilter
  /\ max_jobs \in 0..MaxJobs
  /\ max_pages \in 0..MaxPages
  /\ page = 1
  /\ page_url = REMOTEOK_URL
  /\ seen = {}
  /\ total_saved = 0
  /\ consecutive_empty = 0
  /\ pc = "loop"
  /\ attempt = 0
  /\ error = "none"
  /\ html = NoDoc
  /\ jobs = <<>>
  /\ filtered = <<>>
  /\ idx = 1
  /\ new_jobs_count = 0
  /\ dataset = <<>>
  /\ reported = -1
  /\ last = [url |-> "", outcome |-> "none", run |-> 0, calls |-> 0]
  /\ first_seen = <<>>

(***************************************************************************)
(* main(), line 391: the for loop over range(1, max_pages + 1).            *)
(***************************************************************************)
\* line 391 with range(1, max_pages + 2)
StartPage_OneMore ==
  /\ pc = "loop"
  /\ page <= max_pages + 1
  /\ pc' = "fetch"
  /\ attempt' = 0
  /\ error' = "none"
  /\ UNCHANGED <<inputs, page, page_url, seen, total_saved, consecutive_empty,
                 locals, dataset, reported, last, first_seen>>

\* lines 391-399: the next iteration starts and calls fetch_html(page_url)
StartPage ==
  /\ pc = "loop"
  /\ page <= max_pages
  /\ pc' = "fetch"
  /\ attempt' = 0
  /\ error' = "none"
  /\ UNCHANGED <<inputs, page, page_url, seen, total_saved, consecutive_empty,
                 locals, dataset, reported, last, first_seen>>

\* line 391: the range is exhausted
PagesExhausted ==
  /\ pc = "loop"
  /\ page > max_pages
  /\ pc' = "final"
  /\ UNCHANGED <<inputs, page, page_url, seen, total_saved, consecutive_empty,
                 attempt, error, locals, dataset, reported, last, first_seen>>

(***************************************************************************)
(* fetch_html (lines 56-123): one action per outcome of one GET.           *)
(***************************************************************************)
\* line 58 as a loop that never gives up
AfterSoftFailure_NoGiveUp(a) == "fetch"

\* lines 102, 118 raising on every attempt
AfterSoftFailure_RaiseAtOnce(a) == "failed"

\* the attempt that follows attempt number a, or the end of the loop
AfterSoftFailure(a) == IF a + 1 < RETRIES THEN "fetch" ELSE "failed"

\* lines 89-92 and 94-97: continue; after the last attempt the loop ends
\* and line 123 raises
RetryAlways(kind) ==
  /\ pc = "fetch"
  /\ attempt < RETRIES
  /\ attempt' = attempt + 1
  /\ pc' = AfterSoftFailure(attempt)
  /\ error' = IF attempt + 1 < RETRIES THEN "none" ELSE "exhausted"
  /\ UNCHANGED <<inputs, page, page_url, seen, total_saved, consecutive_empty,
                 locals, dataset, reported, last, first_seen>>

Get403 == RetryAlways("403")
Get429 == RetryAlways("429")

\* lines 99-104, 116-121: another status; line 104 raises on the last attempt,
\* and the handler of line 116 raises it again
GetOtherStatus ==
  /\ pc = "fetch"
  /\ attempt < RETRIES
  /\ attempt' = attempt + 1
  /\ pc' = AfterSoftFailure(attempt)
  /\ error' = IF attempt < RETRIES - 1 THEN "none" ELSE "status"
  /\ UNCHANGED <<inputs, page, page_url, seen, total_saved, consecutive_empty,
                 locals, dataset, reported, last, first_seen>>

\* lines 85, 116-121: session.get raises (timeout, connection reset)
GetException ==
  /\ pc = "fetch"
  /\ attempt < RETRIES
  /\ attempt' = attempt + 1
  /\ pc' = AfterSoftFailure(attempt)
  /\ error' = IF attempt < RETRIES - 1 THEN "none" ELSE "transport"
  /\ UNCHANGED <<inputs, page, page_url, seen, total_saved, consecutive_empty,
                 locals, dataset, reported, last, first_seen>>

\* lines 107-114 on a short body: retried while attempts remain; the body of
\* the last attempt is returned
ShortBodyReturns(a) == ~(a < RETRIES - 1)

GetShort ==
  /\ pc = "fetch"
  /\ attempt < RETRIES
  /\ \E doc \in {d \in Documents : d.short} :
       /\ attempt' = attempt + 1
       /\ IF ShortBodyReturns(attempt)
          THEN pc' = "parse" /\ html' = doc
          ELSE pc' = "fetch" /\ html' = html
  /\ UNCHANGED <<inputs, page, page_url, seen, total_saved, consecutive_empty,
                 error, jobs, filtered, idx, new_jobs_count, dataset, reported,
                 last, first_seen>>

\* lines 107-114 on a body of at least the minimum length: returned
GetOk ==
  /\ pc = "fetch"
  /\ attempt < RETRIES
  /\ \E doc \in {d \in Documents : ~d.short} :
       /\ attempt' = attempt + 1
       /\ pc' = "parse"
       /\ html' = doc
  /\ UNCHANGED <<inputs, page, page_url, seen, total_saved, consecutive_empty,
                 error, jobs, filtered, idx, new_jobs_count, dataset, reported,
                 last, first_seen>>

(***************************************************************************)
(* main(), lines 406-412: fetch_html raised.                               *)
(***************************************************************************)
\* lines 409, 418 stopping at the first failure or empty page
StreakReached_First(n) == n >= 1

\* lines 409, 418
StreakReached(n) == n >= STREAK

\* the state after `continue`: the loop variable advances, page_url stays
FailureContinue ==
  /\ pc = "failed"
  /\ ~StreakReached(consecutive_empty + 1)
  /\ consecutive_empty' = consecutive_empty + 1
  /\ page' = page + 1
  /\ pc' = "loop"
  /\ last' = Outcome(last, page_url, "fail")
  /\ UNCHANGED <<inputs, page_url, seen, total_saved, attempt, error, locals,
                 dataset, reported, first_seen>>

FailureStop ==
  /\ pc = "failed"
  /\ StreakReached(consecutive_empty + 1)
  /\ consecutive_empty' = consecutive_empty + 1
  /\ pc' = "final"
  /\ last' = Outcome(last, page_url, "fail")
  /\ UNCHANGED <<inputs, page, page_url, seen, total_saved, attempt, error,
                 locals, dataset, reported, first_seen>>

(***************************************************************************)
(* main(), lines 414-427: the page is parsed and filtered.                 *)
(***************************************************************************)
\* lines 415-421, `continue`
EmptyContinue ==
  /\ pc = "parse"
  /\ ParsedJobs[html] = <<>>
  /\ ~StreakReached(consecutive_empty + 1)
  /\ jobs' = <<>>
  /\ consecutive_empty' = consecutive_empty + 1
  /\ page' = page + 1
  /\ pc' = "loop"
  /\ last' = Outcome(last, page_url, "empty")
  /\ UNCHANGED <<inputs, page_url, seen, total_saved, attempt, error, html,
                 filtered, idx, new_jobs_count, dataset, reported, first_seen>>

\* lines 415-420, `break`
EmptyStop ==
  /\ pc = "parse"
  /\ ParsedJobs[html] = <<>>
  /\ StreakReached(consecutive_empty + 1)
  /\ jobs' = <<>>
  /\ consecutive_empty' = consecutive_empty + 1
  /\ pc' = "final"
  /\ last' = Outcome(last, page_url, "empty")
  /\ UNCHANGED <<inputs, page, page_url, seen, total_saved, attempt, error, html,
                 filtered, idx, new_jobs_count, dataset, reported, first_seen>>

\* history: the jobs of js whose url neither fs nor an earlier job of js
\* holds, appended to fs in the order of js
Discover(fs, js) ==
  LET new == {i \in 1..Len(js) :
                /\ \A k \in 1..Len(fs) : fs[k].job_url # js[i].job_url
                /\ \A k \in 1..(i - 1) : js[k].job_url # js[i].job_url}
      nth(k) == CHOOSE i \in new : Cardinality({m \in new : m <= i}) = k
  IN fs \o [k \in 1..Cardinality(new) |-> js[nth(k)]]

\* lines 414, 424-429, without the reset of line 423
ParsePage_NoReset ==
  /\ pc = "parse"
  /\ LET parsed == ParsedJobs[html]
         kept == FilteredJobs[html][[keyword |-> keyword, location |-> location,
                                     dateFilter |-> date_filter]]
     IN /\ parsed # <<>>
        /\ jobs' = parsed
        /\ filtered' = kept
        /\ first_seen' = Discover(first_seen, kept)
  /\ idx' = 1
  /\ new_jobs_count' = 0
  /\ pc' = "emit"
  /\ last' = Outcome(last, page_url, "jobs")
  /\ UNCHANGED <<inputs, page, page_url, seen, total_saved, consecutive_empty,
                 attempt, error, html, dataset, reported>>

\* lines 414, 423-429
ParsePage ==
  /\ pc = "parse"
  /\ LET parsed == ParsedJobs[html]
         kept == FilteredJobs[html][[keyword |-> keyword, location |-> location,
                                     dateFilter |-> date_filter]]
     IN /\ parsed # <<>>
        /\ jobs' = parsed
        /\ filtered' = kept
        /\ first_seen' = Discover(first_seen, kept)
  /\ consecutive_empty' = 0
  /\ idx' = 1
  /\ new_jobs_count' = 0
  /\ pc' = "emit"
  /\ last' = Outcome(last, page_url, "jobs")
  /\ UNCHANGED <<inputs, page, page_url, seen, total_saved, attempt, error, html,
                 dataset, reported>>

(***************************************************************************)
(* main(), lines 430-441: one iteration of the loop over filtered.         *)
(***************************************************************************)
\* line 431 with > for >=
CapReached_OffByOne(saved, cap) == saved > cap

\* line 431
CapReached(saved, cap) == saved >= cap

\* line 434 with the test dropped
IsDuplicate_Never(url, s) == FALSE

\* line 434
IsDuplicate(url, s) == url \in s

\* lines 431-433, `break`
EmitCapBreak ==
  /\ pc = "emit"
  /\ idx <= Len(filtered)
  /\ CapReached(total_saved, max_jobs)
  /\ pc' = "after"
  /\ UNCHANGED <<inputs, page, page_url, seen, total_saved, consecutive_empty,
                 attempt, error, locals, dataset, reported, last, first_seen>>

\* lines 434-436 counting the duplicate as saved
EmitSkipDuplicate_Counted ==
  /\ pc = "emit"
  /\ idx <= Len(filtered)
  /\ ~CapReached(total_saved, max_jobs)
  /\ IsDuplicate(filtered[idx].job_url, seen)
  /\ idx' = idx + 1
  /\ total_saved' = total_saved + 1
  /\ UNCHANGED <<inputs, page, page_url, seen, consecutive_empty,
                 pc, attempt, error, html, jobs, filtered, new_jobs_count,
                 dataset, reported, last, first_seen>>

\* lines 434-436, `continue`
EmitSkipDuplicate ==
  /\ pc = "emit"
  /\ idx <= Len(filtered)
  /\ ~CapReached(total_saved, max_jobs)
  /\ IsDuplicate(filtered[idx].job_url, seen)
  /\ idx' = idx + 1
  /\ UNCHANGED <<inputs, page, page_url, seen, total_saved, consecutive_empty,
                 pc, attempt, error, html, jobs, filtered, new_jobs_count,
                 dataset, reported, last, first_seen>>

\* lines 437-441 with the record put in front of the dataset
EmitSave_Prepend ==
  /\ pc = "emit"
  /\ idx <= Len(filtered)
  /\ ~CapReached(total_saved, max_jobs)
  /\ ~IsDuplicate(filtered[idx].job_url, seen)
  /\ seen' = seen \cup {filtered[idx].job_url}
  /\ dataset' = <<filtered[idx]>> \o dataset
  /\ total_saved' = total_saved + 1
  /\ new_jobs_count' = new_jobs_count + 1
  /\ idx' = idx + 1
  /\ UNCHANGED <<inputs, page, page_url, consecutive_empty, pc, attempt, error,
                 html, jobs, filtered, reported, last, first_seen>>

\* lines 437-441
EmitSave ==
  /\ pc = "emit"
  /\ idx <= Len(filtered)
  /\ ~CapReached(total_saved, max_jobs)
  /\ ~IsDuplicate(filtered[idx].job_url, seen)
  /\ seen' = seen \cup {filtered[idx].job_url}
  /\ dataset' = Append(dataset, filtered[idx])
  /\ total_saved' = total_saved + 1
  /\ new_jobs_count' = new_jobs_count + 1
  /\ idx' = idx + 1
  /\ UNCHANGED <<inputs, page, page_url, consecutive_empty, pc, attempt, error,
                 html, jobs, filtered, reported, last, first_seen>>

\* line 430: the loop ends
EmitEnd ==
  /\ pc = "emit"
  /\ idx > Len(filtered)
  /\ pc' = "after"
  /\ UNCHANGED <<inputs, page, page_url, seen, total_saved, consecutive_empty,
                 attempt, error, locals, dataset, reported, last, first_seen>>

(***************************************************************************)
(* main(), lines 443-449: after the page's jobs.                           *)
(***************************************************************************)
\* line 445 with > for >=
CapStopCheck_OffByOne(saved, cap) == saved > cap

\* line 445
CapStopCheck(saved, cap) == saved >= cap

\* lines 445-447, `break`
CapStop ==
  /\ pc = "after"
  /\ CapStopCheck(total_saved, max_jobs)
  /\ pc' = "final"
  /\ UNCHANGED <<inputs, page, page_url, seen, total_saved, consecutive_empty,
                 attempt, error, locals, dataset, reported, last, first_seen>>

\* line 449 and the next value of the loop variable
NextPage ==
  /\ pc = "after"
  /\ ~CapStopCheck(total_saved, max_jobs)
  /\ page_url' = NextPageUrl[page_url]
  /\ page' = page + 1
  /\ pc' = "loop"
  /\ UNCHANGED <<inputs, seen, total_saved, consecutive_empty, attempt, error,
                 locals, dataset, reported, last, first_seen>>

\* line 451: the final log line
Report ==
  /\ pc = "final"
  /\ reported' = total_saved
  /\ pc' = "done"
  /\ UNCHANGED <<inputs, page, page_url, seen, total_saved, consecutive_empty,
                 attempt, error, locals, dataset, last, first_seen>>

Next ==
  \/ StartPage \/ PagesExhausted
  \/ Get403 \/ Get429 \/ GetOtherStatus \/ GetException \/ GetShort \/ GetOk
  \/ FailureContinue \/ FailureStop
  \/ EmptyContinue \/ EmptyStop \/ ParsePage
  \/ EmitCapBreak \/ EmitSkipDuplicate \/ EmitSave \/ EmitEnd
  \/ CapStop \/ NextPage
  \/ Report

Spec == Init /\ [][Next]_vars

\* the scheduler runs the single task of main() until it returns
FairSpec == Spec /\ WF_vars(Next)

(***************************************************************************)
(* next_page_url on its own: applied, up to MaxApply times in a row, to    *)
(* listing urls with and without a pg parameter, other parameters and a    *)
(* fragment.                                                               *)
(***************************************************************************)
MaxApply == 2

UrlBases ==
  { REMOTEOK_URL, "https://remoteok.com/remote-dev-jobs", "http://jobs.example.org/list" }

UrlQueries ==
  { "", "pg=1", "pg=5", "pg=12", "pg=", "q=dev", "q=dev&pg=5", "pg=5&q=dev",
    "q=a%20b&pg=2", "q=a+b", "q=a/b&pg=3", "x=1&pg=9&x=2", "q=&pg=5", "flag&pg=2" }

UrlFragments == { "", "top" }

ListingUrls ==
  { urlunparse([urlparse(b) EXCEPT !.query = q, !.fragment = f]) :
      b \in UrlBases, q \in UrlQueries, f \in UrlFragments }

InitUrl ==
  /\ keyword = None /\ location = None /\ date_filter = "all"
  /\ max_jobs = 0 /\ max_pages = 0
  /\ page = 1
  /\ page_url \in ListingUrls
  /\ seen = {} /\ total_saved = 0 /\ consecutive_empty = 0
  /\ pc = "url"
  /\ attempt = 0 /\ error = "none"
  /\ html = NoDoc /\ jobs = <<>> /\ filtered = <<>> /\ idx = 1
  /\ new_jobs_count = 0 /\ dataset = <<>> /\ reported = -1
  /\ last = [url |-> "", outcome |-> "none", run |-> 0, calls |-> 0]
  /\ first_seen = <<>>

\* line 449 alone: page counts the applications
ApplyNextPageUrl ==
  /\ pc = "url"
  /\ page <= MaxApply
  /\ page_url' = next_page_url(page_url)
  /\ page' = page + 1
  /\ UNCHANGED <<inputs, seen, total_saved, consecutive_empty, pc, attempt, error,
                 locals, dataset, reported, last, first_seen>>

SpecUrl == InitUrl /\ [][ApplyNextPageUrl]_vars

(***************************************************************************)
(* filter_jobs on its own: applied once to a list of jobs under every      *)
(* combination of the three filters.  The jobs differ in where the keyword *)
(* stands, in their location and in the age and form of date_posted,       *)
(* relative to UTCNOW_ISO.                                                 *)
(***************************************************************************)
FJob(title, company, loc, tags, desc, date) ==
  [job_title |-> title, company |-> company,
   job_url |-> SITE_ROOT \o "/remote-jobs/" \o Lower(company),
   location |-> loc, tags |-> tags, logo |-> None, date_posted |-> date,
   description_html |-> desc, description_text |-> desc,
   source_url |-> REMOTEOK_URL, collected_at |-> UTCNOW_ISO,
   job_type |-> JobType(tags)]

FilterCatalogue ==
  << FJob("Python Dev", "Acme", "USA", <<"Full Time">>, "Build APIs",
          "2025-06-17T12:00:00"),                       \* 3 days old
     FJob("Designer", "Corp", "Europe", <<"figma">>, "",
          "2025-06-10T12:00:00"),                       \* 10 days old
     FJob("Writer", "Delta", "", <<>>, "remote in the us", None),
     FJob("Support", "Echo", "Austin, US", <<"part-time", "python">>, "",
          "2025-06-20"),                                \* a date alone
     FJob("Analyst", "Golf", "Remote", <<>>, "PYTHON scripts", "2d ago"),
     FJob("Engineer", "Hotel", "us east", <<>>, "",
          "2025-06-12T11:59:59"),                       \* 8 days and 1 second
     FJob("Manager", "India", "Asia", <<>>, "",
          "2025-05-19T12:00:00"),                       \* 32 days old
     FJob("Lead", "Juliet", "USA", <<>>, "",
          "2025-06-01T09:00:00+00:00"),                 \* 19 days, with offset
     FJob("Clerk", "Kilo", "Peru", <<>>, "",
          "2025-06-13T12:00:00"),                       \* 7 days old
     FJob("Intern", "Lima", "Russia", <<"Contract">>, "",
          "2025-06-19T12:00:00"),                       \* 1 day old
     FJob("Pilot", "Mike", "Cyprus", <<>>, "",
          "2025-06-25T00:00:00") >>                     \* in the future

\* the lists handed to filter_jobs: the runs of neighbours of the catalogue
FilterLists ==
  { SubSeq(FilterCatalogue, a, b) :
      a \in 1..Len(FilterCatalogue), b \in 0..Len(FilterCatalogue) }

FilterKeywords == { None, "", "PyThon" }
FilterLocations == { None, "", "US" }
FilterWindows == { None, "all", "today", "week", "month" }

InitFilter ==
  /\ keyword \in FilterKeywords
  /\ location \in FilterLocations
  /\ date_filter \in FilterWindows
  /\ max_jobs = 0 /\ max_pages = 0
  /\ page = 1
  /\ page_url = REMOTEOK_URL
  /\ seen = {} /\ total_saved = 0 /\ consecutive_empty = 0
  /\ pc = "filter"
  /\ attempt = 0 /\ error = "none"
  /\ html = NoDoc /\ jobs \in FilterLists /\ filtered = <<>> /\ idx = 1
  /\ new_jobs_count = 0 /\ dataset = <<>> /\ reported = -1
  /\ last = [url |-> "", outcome |-> "none", run |-> 0, calls |-> 0]
  /\ first_seen = <<>>

\* line 426 alone
ApplyFilterJobs ==
  /\ pc = "filter"
  /\ filtered' = filter_jobs(jobs, keyword, location, date_filter)
  /\ pc' = "filtered"
  /\ UNCHANGED <<inputs, page, page_url, seen, total_saved, consecutive_empty,
                 attempt, error, html, jobs, idx, new_jobs_count, dataset,
                 reported, last, first_seen>>

SpecFilter == InitFilter /\ [][ApplyFilterJobs]_vars

(***************************************************************************)
(* The job_type derivation of parse_jobs on its own: one job row with up   *)
(* to MaxTags tags, parsed once.                                           *)
(***************************************************************************)
MaxTags == 3

TagTexts ==
  { "Full Time", "part-time", "Contract", "python", "FULLTIME", "Full Stack Contract" }

TagLists == UNION { [1..n -> TagTexts] : n \in 0..MaxTags }

TaggedRow(ts) == [R0 EXCEPT !.data_id = "t", !.elems =
  <<Link("/remote-jobs/t"), H2("Dev"), H3("Tango")>> \o [i \in 1..Len(ts) |-> TagEl(ts[i])]]

InitTags ==
  /\ keyword = None /\ location = None /\ date_filter = "all"
  /\ max_jobs = 0 /\ max_pages = 0
  /\ page = 1
  /\ page_url = REMOTEOK_URL
  /\ seen = {} /\ total_saved = 0 /\ consecutive_empty = 0
  /\ pc = "tags"
  /\ attempt = 0 /\ error = "none"
  /\ html \in {Doc(<<TaggedRow(ts)>>) : ts \in TagLists}
  /\ jobs = <<>> /\ filtered = <<>> /\ idx = 1
  /\ new_jobs_count = 0 /\ dataset = <<>> /\ reported = -1
  /\ last = [url |-> "", outcome |-> "none", run |-> 0, calls |-> 0]
  /\ first_seen = <<>>

\* line 414 alone
ApplyParseJobs ==
  /\ pc = "tags"
  /\ jobs' = parse_jobs(html)
  /\ pc' = "typed"
  /\ UNCHANGED <<inputs, page, page_url, seen, total_saved, consecutive_empty,
                 attempt, error, html, filtered, idx, new_jobs_count, dataset,
                 reported, last, first_seen>>

SpecTags == InitTags /\ [][ApplyParseJobs]_vars

(***************************************************************************)
(* Properties.                                                             *)
(***************************************************************************)
Min(a, b) == IF a <= b THEN a ELSE b

Range(seq) == {seq[i] : i \in 1..Len(seq)}

FiveRows == Doc(<<RowA, RowB, RowC, RowD, RowE>>)

\* C1: the number of records pushed is at most maxJobs in every state, and
\* outside the loop over a page's jobs it is exactly the smaller of maxJobs
\* and the number of distinct urls that passed the filters so far (maxJobs = 2
\* and 5 qualifying distinct rows: exactly 2).
C1_CapRespected ==
  /\ total_saved <= max_jobs
  /\ Len(dataset) = total_saved
  /\ pc # "emit" => total_saved = Min(max_jobs, Len(first_seen))

C1_Witness ==
  /\ pc = "done"
  /\ max_jobs = 2
  /\ html = FiveRows
  /\ Len(first_seen) = 5
  /\ Len(dataset) = 2
  /\ reported = 2

\* C2: for maxJobs >= 1, in a state where the emitted count has reached
\* maxJobs no step calls fetch_html and no step issues a GET.
C2_NoFetchAfterCap ==
  [][(max_jobs >= 1 /\ total_saved >= max_jobs)
       => (pc' # "fetch" /\ attempt' = attempt)]_vars

C2_Witness ==
  /\ pc = "done"
  /\ max_jobs >= 1
  /\ total_saved = max_jobs
  /\ page < max_pages

\* C3: the emitted records have pairwise distinct urls, and the record
\* emitted for a url is the first one of that url that passed the filters.
C3_NoUrlTwice ==
  /\ \A i, j \in 1..Len(dataset) :
       i # j => dataset[i].job_url # dataset[j].job_url
  /\ \A i \in 1..Len(dataset) : dataset[i] \in Range(first_seen)

\* a second, different record of an emitted url went through the loop
C3_Witness ==
  /\ pc = "after"
  /\ \E i \in 1..Len(filtered) :
       /\ i < idx
       /\ filtered[i].job_url \in seen
       /\ filtered[i] \notin Range(dataset)

\* C4: every emitted record has a non-empty title, company and url.
C4_RequiredFields ==
  \A i \in 1..Len(dataset) :
    /\ Strip(dataset[i].job_title) # ""
    /\ Strip(dataset[i].company) # ""
    /\ Truthy(dataset[i].job_url)

\* what a raw row offers, read off its markup
HasTitleMarkup(r) ==
  \E i \in 1..Len(r.elems) : r.elems[i].tag = "h2" \/ r.elems[i].itemprop = "title"
HasCompanyMarkup(r) ==
  \E i \in 1..Len(r.elems) : r.elems[i].tag = "h3" \/ r.elems[i].itemprop = "name"
HasUrlMarkup(r) == Truthy(ResolveUrl(r))

\* the jobs parsed from the rows of a document all come from rows that Q holds of
ComeFrom(js, trs, Q(_)) ==
  LET good == {i \in 1..Len(trs) : Q(trs[i])} IN
  /\ Len(js) <= Cardinality(good)
  /\ \A j \in 1..Len(js) : \E i \in good : js[j].job_url = ResolveUrl(trs[i])

C6_Terminates == <>(pc = "done" /\ reported = total_saved)

\* a run that ends with nothing emitted after a failed fetch
C6_Witness ==
  /\ pc = "done"
  /\ reported = 0
  /\ last.outcome = "fail"

IsPrefix(a, b) == Len(a) <= Len(b) /\ SubSeq(b, 1, Len(a)) = a

\* C7 as claimed: once fetch_html has raised for the status of its last
\* attempt, the controller starts no page fetch any more, and the records
\* emitted so far stay as they are.
C7_Claimed ==
  [][/\ IsPrefix(dataset, dataset')
     /\ (pc \in {"failed", "loop"} /\ error = "status") => pc' # "fetch"]_vars

\* C7 as amended: such a failure adds one to the streak counter and emits
\* nothing; the run stops only when the counter reaches 3, and otherwise goes
\* on to the next iteration with the same url; no step ever removes or
\* changes an emitted record.
C7_FailureCounted ==
  [][/\ IsPrefix(dataset, dataset')
     /\ (pc = "failed" /\ error = "status") =>
          /\ dataset' = dataset
          /\ total_saved' = total_saved
          /\ consecutive_empty' = consecutive_empty + 1
          /\ IF consecutive_empty + 1 >= 3
             THEN pc' = "final"
             ELSE pc' = "loop" /\ page' = page + 1 /\ page_url' = page_url]_vars

\* after a fatal status the loop is about to fetch again, with records
\* already emitted
C7_Witness ==
  /\ pc = "loop"
  /\ error = "status"
  /\ page <= max_pages
  /\ last.outcome = "fail"
  /\ consecutive_empty = 1
  /\ Len(dataset) > 0

\* C8: a run stopped by the streak rule, with pages and job budget left, has
\* ended its last 3 fetch_html calls the same way: 3 empty pages in a row or
\* 3 failures in a row.
C8_StreakOfOneKind ==
  (/\ pc = "final"
   /\ last.outcome \in {"fail", "empty"}
   /\ page < max_pages
   /\ total_saved < max_jobs)
  => last.run >= 3

\* C9: the first fetch is of page 1; after a page that was fetched and parsed
\* (with or without rows) the next fetch is of the next page number; after a
\* failed fetch no page number is skipped.
C9_PageAdvances ==
  pc = "fetch" =>
    CASE last.outcome = "none" -> PageNo(page_url) = 1
      [] last.outcome \in {"empty", "jobs"} -> PageNo(page_url) = PageNo(last.url) + 1
      [] OTHER -> PageNo(page_url) \in {PageNo(last.url), PageNo(last.url) + 1}

\* the parameters of a query string, blank ones included, as (name, value)
RECURSIVE RawParams(_)
RawParams(pieces) ==
  IF Len(pieces) = 0 THEN <<>>
  ELSE LET nv == pieces[1]
           e == IndexOf(nv, "=")
       IN (IF nv = "" THEN <<>>
           ELSE IF e = 0 THEN << <<UnquotePlus(nv), "">> >>
           ELSE << <<UnquotePlus(SubSeq(nv, 1, e - 1)),
                     UnquotePlus(SubSeq(nv, e + 1, Len(nv)))>> >>)
          \o RawParams(Tail(pieces))

ParamsOf(url) == RawParams(Split(urlparse(url).query, "&"))
PgValues(url) == SelectSeq(ParamsOf(url), LAMBDA nv : nv[1] = "pg" /\ nv[2] # "")
OtherParams(url) == {nv \in Range(ParamsOf(url)) : nv[1] # "pg"}

\* C10: the result carries pg=2 for a url without pg and pg=n+1 for a url
\* with pg=n; scheme, host, path and the other parameters are unchanged.
C10_OnlyPgChanges ==
  [][pc = "url" =>
       LET old == urlparse(page_url)
           new == urlparse(page_url')
           n == IF PgValues(page_url) = <<>> THEN 1 ELSE ToInt(PgValues(page_url)[1][2])
       IN /\ PgValues(page_url') = << <<"pg", IntToStr(n + 1)>> >>
          /\ new.scheme = old.scheme
          /\ new.netloc = old.netloc
          /\ new.path = old.path
          /\ OtherParams(page_url') = OtherParams(page_url)]_vars

\* C11: fetch_html hands a body to its caller only when the body has the
\* minimum length; a short body never reaches parse_jobs.
C11_ShortBodyNeverReturned == pc = "parse" => ~html.short

\* the GETs of fetch_html that end without a body: 403, 429, another status,
\* an exception
GetFails == Get403 \/ Get429 \/ GetOtherStatus \/ GetException

\* C12: a fetch_html call makes at most RETRIES GETs, one at a time; it
\* raises only after its last GET; a GET without a body is followed by
\* another GET when it is not the last and by a raise when it is; after the
\* GET that returns a body no GET follows until the next call.
C12_BoundedRetries ==
  [][/\ attempt' <= RETRIES
     /\ attempt' # attempt =>
          \/ pc = "fetch" /\ attempt' = attempt + 1
          \/ pc = "loop" /\ pc' = "fetch" /\ attempt' = 0
     /\ pc' # pc /\ pc' = "failed" => pc = "fetch" /\ attempt' = RETRIES
     /\ GetFails /\ attempt < RETRIES - 1 => pc' = "fetch"
     /\ GetFails /\ attempt = RETRIES - 1 => pc' = "failed" /\ error' # "none"
     /\ pc = "fetch" /\ pc' = "parse" => attempt' = attempt + 1]_vars

\* a call that raised after an exception on its third GET, and before that
\* state a call that returned on its second GET
C12_Witness ==
  /\ pc = "failed"
  /\ attempt = RETRIES
  /\ error = "transport"
  /\ last.outcome = "jobs"

\* the filter is not set: the input is missing, null or empty
Absent(f) == ~Truthy(f)

\* C13: filter_jobs keeps exactly the jobs that pass the keyword test, the
\* location test and the recency test, in the order of its input; a filter
\* that is absent rejects nothing.  The recency test of a job is what
\* filter_jobs does with that job when only the date filter is set.
C13_ThreeFiltersAnd ==
  pc = "filtered" =>
    LET kwPass(j) ==
          \/ Absent(keyword)
          \/ Contains(Lower(Join(<<j.job_title, j.company, j.location,
                                   Join(j.tags), j.description_text>>)),
                      Lower(keyword))
        locPass(j) ==
          Absent(location) \/ Contains(Lower(j.location), Lower(location))
        recent(j) == filter_jobs(<<j>>, None, None, date_filter) = <<j>>
    IN /\ filtered = SelectSeq(jobs, LAMBDA j : kwPass(j) /\ locPass(j) /\ recent(j))
       /\ (Absent(keyword) /\ Absent(location) /\ date_filter \in {None, "all"})
            => filtered = jobs
       /\ (Absent(keyword) /\ Absent(location))
            => filtered = SelectSeq(jobs, recent)
       /\ date_filter \in {None, "all"}
            => filtered = SelectSeq(jobs, LAMBDA j : kwPass(j) /\ locPass(j))

\* all three filters set: of the 11 jobs the two that pass all of them
C13_Witness ==
  /\ pc = "filtered"
  /\ keyword = "PyThon" /\ location = "US" /\ date_filter = "week"
  /\ Len(jobs) = 11
  /\ Len(filtered) = 2
  /\ filtered[1].company = "Acme" /\ filtered[2].company = "Echo"

\* C14: with a window of 1, 7 or 31 days a job is rejected exactly when its
\* date_posted parses and its age in days is above the window; a job with a
\* missing or unparseable date is kept; without a window every job is kept.
C14_RecencyWindow ==
  (pc = "filtered" /\ Absent(keyword) /\ Absent(location)) =>
    \A i \in 1..Len(jobs) :
      LET j == jobs[i]
          W == CASE date_filter = "today" -> 1
                 [] date_filter = "week" -> 7
                 [] date_filter = "month" -> 31
                 [] OTHER -> 0
          dt == fromisoformat(j.date_posted)
          tooOld == /\ W # 0
                    /\ Truthy(j.date_posted)
                    /\ dt.ok
                    /\ AgeDays(fromisoformat(UTCNOW_ISO), dt) > W
      IN (j \in Range(filtered)) <=> ~tooOld

\* the job types a tag names
TypesNamed(tag) ==
  {ty \in {"Full-time", "Part-time", "Contract"} :
     \/ ty = "Full-time" /\ Contains(Lower(tag), "full")
     \/ ty = "Part-time" /\ Contains(Lower(tag), "part")
     \/ ty = "Contract" /\ Contains(Lower(tag), "contract")}

\* C15: job_type is one of the four types; when no tag names a type it is
\* Remote; otherwise it is a type that the first tag naming any type names.
C15_JobTypeFirstMatch ==
  pc = "typed" =>
    /\ Len(jobs) = 1
    /\ \A i \in 1..Len(jobs) :
         LET tags == jobs[i].tags
             hits == {k \in 1..Len(tags) : TypesNamed(tags[k]) # {}}
         IN /\ jobs[i].job_type \in {"Full-time", "Part-time", "Contract", "Remote"}
            /\ hits = {} => jobs[i].job_type = "Remote"
            /\ hits # {} =>
                 LET first == CHOOSE k \in hits : \A m \in hits : k <= m
                 IN jobs[i].job_type \in TypesNamed(tags[first])

\* three tags, the second and the third name different types
C15_Witness ==
  /\ pc = "typed"
  /\ Len(jobs) = 1
  /\ jobs[1].tags = <<"python", "part-time", "Full Time">>
  /\ jobs[1].job_type = "Part-time"

\* the row carries the class ad or the class header
TaggedAdOrHeader(r) == "ad" \in Range(r.classes) \/ "header" \in Range(r.classes)

\* the urls that the advertisement and header rows of the catalogue carry
AdUrls ==
  UNION { {ResolveUrl(d.trs[i]) : i \in {k \in 1..Len(d.trs) : TaggedAdOrHeader(d.trs[k])}} :
            d \in Documents }

AdPage == Doc(<<RowA, RowAd, RowB>>)

\* C16: the jobs parsed from a page come from rows that are neither
\* advertisement nor header and are no more than those rows; no such row is
\* ever emitted; the page of 2 job rows and 1 advertisement parses to 2 jobs,
\* and without filters both are emitted when the cap leaves room for them.
C16_AdsAndHeadersSkipped ==
  /\ pc \in {"emit", "after"} =>
       /\ ComeFrom(jobs, html.trs, LAMBDA r : ~TaggedAdOrHeader(r))
       /\ \A i \in 1..Len(jobs) : jobs[i].job_url \notin AdUrls
       /\ html = AdPage => Len(jobs) = 2
  /\ \A i \in 1..Len(dataset) : dataset[i].job_url \notin AdUrls
  /\ (/\ pc = "after"
      /\ html = AdPage
      /\ Absent(keyword) /\ Absent(location) /\ date_filter = "all"
      /\ total_saved - new_jobs_count + 2 <= max_jobs)
     => /\ \A i \in 1..Len(jobs) : \E k \in 1..Len(dataset) : dataset[k] = jobs[i]
        /\ page = 1 => dataset = jobs

\* the first page was the page with the advertisement; both jobs are out
C16_Witness ==
  /\ pc = "after"
  /\ html = AdPage
  /\ page = 1
  /\ Absent(keyword) /\ Absent(location) /\ date_filter = "all"
  /\ Len(dataset) = 2
  /\ dataset = jobs

\* C17: every step leaves the records pushed so far in place and at most
\* adds records after them, and the dataset is always a beginning of the
\* discovery order (pages in the order fetched, rows in the order of the
\* page, each url at its first job that passed the filters).
C17_AppendOnlyInOrder ==
  [][/\ IsPrefix(dataset, dataset')
     /\ IsPrefix(dataset', first_seen')
     /\ dataset' # dataset =>
          /\ pc = "emit"
          /\ dataset' = Append(dataset, filtered[idx])]_vars

\* a record of the first page, then two pages whose fetch failed; the run is
\* over and the record is still there
C17_Witness ==
  /\ pc = "done"
  /\ last.outcome = "fail"
  /\ last.run = 2
  /\ Len(dataset) = 1
  /\ dataset[1].company = "Kilo"
  /\ dataset = first_seen

\* C18: a run calls fetch_html at most max_pages times, failed calls and
\* empty pages included, and the url of a call never names a page number
\* above max_pages.
C18_PageCeiling ==
  /\ last.calls <= max_pages
  /\ pc \in {"fetch", "failed", "parse"} => last.calls < max_pages
  /\ pc = "fetch" => PageNo(page_url) <= max_pages

\* the third and last call of a run with max_pages = 3, of page number 3
C18_Witness ==
  /\ pc = "fetch"
  /\ max_pages = 3
  /\ last.calls = 2
  /\ PageNo(page_url) = 3

UrlsOf(js) == {js[i].job_url : i \in 1..Len(js)}

\* C19: before and after every step seen is the set of the urls of the
\* records pushed so far and has total_saved elements; a url enters seen only
\* in the step that pushes its record.
C19_SeenIsEmitted ==
  [][/\ seen = UrlsOf(dataset) /\ Cardinality(seen) = total_saved
     /\ seen' = UrlsOf(dataset') /\ Cardinality(seen') = total_saved'
     /\ total_saved' = Len(dataset')
     /\ seen' # seen =>
          /\ dataset' = Append(dataset, filtered[idx])
          /\ seen' = seen \cup {filtered[idx].job_url}
          /\ filtered[idx].job_url \notin seen]_vars

\* a page of three jobs, the second a duplicate of the first: two urls seen,
\* two records pushed
C19_Witness ==
  /\ pc = "after"
  /\ html = Doc(<<RowA2, RowA, RowD>>)
  /\ Len(filtered) = 3
  /\ filtered[1].job_url = filtered[2].job_url
  /\ Cardinality(seen) = 2
  /\ total_saved = 2
  /\ new_jobs_count = 2

\* C20: consecutive_empty stays within 0..3; the step that takes it to 3
\* ends the pagination, and a failed fetch or an empty page ends it only
\* so; a page that parses to at least one job sets it to 0; and when such a
\* page brought no new record (max_jobs being positive), the counter is
\* still 0 after it and the next iteration fetches the next page number.
C20_StreakCounter ==
  [][/\ consecutive_empty \in 0..3 /\ consecutive_empty' \in 0..3
     /\ consecutive_empty = 3 => pc \in {"final", "done"}
     /\ consecutive_empty' = 3 => pc' \in {"final", "done"}
     /\ (pc \in {"failed", "parse"} /\ pc' = "final") => consecutive_empty' = 3
     /\ (pc = "parse" /\ ParsedJobs[html] # <<>>) =>
          /\ pc' = "emit"
          /\ consecutive_empty' = 0
     /\ pc \in {"emit", "after"} => Len(jobs) >= 1 /\ consecutive_empty = 0
     /\ (pc = "after" /\ new_jobs_count = 0 /\ max_jobs >= 1) =>
          /\ consecutive_empty' = 0
          /\ pc' = "loop"
          /\ page' = page + 1
          /\ PageNo(page_url') = PageNo(page_url) + 1]_vars

\* the third call of a run, after two calls that failed or found no job,
\* parsed jobs that the filters all rejected: the counter is 0 and the next
\* url names page 2
C20_Witness ==
  /\ pc = "loop"
  /\ last.outcome = "jobs"
  /\ last.calls = 3
  /\ Len(jobs) >= 1
  /\ Len(filtered) = 0
  /\ new_jobs_count = 0
  /\ consecutive_empty = 0
  /\ PageNo(page_url) = 2

====
